---- MODULE Spec2Model ----
(***************************************************************************)
(* The chunking core of partition-api-v2 (src/src/chunker.py) as a state   *)
(* machine: one chunk_documents call, stepped document by document,        *)
(* element by element (parse_markdown) and chunk by chunk (the packing     *)
(* loop).  The markdown chef and the three chonkie splitters are external: *)
(* what they return (element lists, pieces, or an exception) is drawn      *)
(* nondeterministically at the step that calls them.                       *)
(* ingest_operation (src/src/ingest.py) is the caller of chunk_documents:  *)
(* one invocation, stepped stage by stage, its downloads, parsers, Redis   *)
(* writes, upload and notifications being external calls that return or    *)
(* raise.  crawl_operation (src/src/crawl.py) and youtube_operation        *)
(* (src/src/yt.py) call chunk_documents once per page or video, and        *)
(* _retry_operation (src/src/youtube/converter.py) and                     *)
(* _get_and_wait_for_job (src/src/datalab_parser.py) are loops around one  *)
(* external call; each has a specification of its own.                     *)
(***************************************************************************)
EXTENDS Integers, Sequences, FiniteSets, TLC

(***************************************************************************)
(* Python values                                                           *)
(***************************************************************************)
\* Python's None, and a present optional value.
None == <<>>
Some(x) == <<x>>

\* Texts are sequences of characters; " " stands for any whitespace.
Whitespace == {" "}

RECURSIVE lstrip(_)
lstrip(s) ==
    IF s # <<>> /\ Head(s) \in Whitespace THEN lstrip(Tail(s)) ELSE s

RECURSIVE rstrip(_)
rstrip(s) ==
    IF s # <<>> /\ s[Len(s)] \in Whitespace
    THEN rstrip(SubSeq(s, 1, Len(s) - 1))
    ELSE s

\* a faulty variant of strip: leading whitespace only
stripLeading(s) == lstrip(s)

\* str.strip()
strip(s) == rstrip(lstrip(s))

\* Python's a % b for a >= 0 and b # 0: the result takes the sign of b.
PyMod(a, b) ==
    IF b > 0
    THEN a % b
    ELSE IF a % (-b) = 0 THEN 0 ELSE (a % (-b)) + b

(***************************************************************************)
(* Bounds of the model and the inputs drawn                                *)
(***************************************************************************)
\* documents of one chunk_documents call
MaxDocs == 2
\* structural elements the chef returns over the whole call
MaxElems == 2
\* chunks (splitter pieces) over the whole call
MaxChunks == 3

\* ChunkOptions.chunk_size (the schema's default)
chunk_size == 2048

\* start offsets the chef stamps on elements
StartIndexes == {0, 1}
\* raw piece texts a splitter returns
RawTexts == {<<" ">>, <<" ", "a", " ">>}
\* the supported-language allow-list
langs ==
    {"af", "am", "ar", "bg", "bn", "ca", "cs", "cy", "da", "de", "en", "es",
     "et", "fa", "fi", "fr", "ga", "gl", "he", "hi", "hr", "hu", "id", "is",
     "it", "jp", "kr", "lt", "lv", "mk", "ms", "mt", "ne", "nl", "no", "pl",
     "pt", "pt-BR", "ro", "ru", "sk", "sl", "sr", "sv", "sw", "ta", "te",
     "th", "tl", "tr", "uk", "ur", "vi", "zh", "zu"}
\* the language a code fence declares: none, a grammar, no grammar
CodeLanguages == {None, Some("python"), Some("zz")}
\* languages the code splitter has a grammar for ("auto" detects)
RecognizedGrammars == {"auto", "python"}
\* batch_size of a call: None, or any integer the schema admits
BatchSizes == {None, Some(-2), Some(0), Some(2), Some(3)}
\* a document is {text} or {text, page}; page is an int or None
Documents ==
    {[text |-> "md"]} \cup
    {[text |-> "md", page |-> p] : p \in {None, Some(0), Some(1)}}

(***************************************************************************)
(* State                                                                   *)
(***************************************************************************)
VARIABLES
    documents,          \* chunk_documents argument
    batch_size,         \* chunk_documents argument
    language_code,      \* chunk_options.language_code
    pc,                 \* "doc", "items", "pack", "done", "raised"
    docIdx,             \* 1-based position of the for-doc loop
    page_number,        \* chunk_documents local
    rules,              \* parse_markdown local
    recursive_chunker,  \* parse_markdown local handle
    table_chunker,      \* parse_markdown local handle
    code_chunker,       \* parse_markdown local handle
    items,              \* parse_markdown local: the sorted element list
    itemIdx,            \* 1-based position of the for-item loop
    final_chunks,       \* parse_markdown local / its return value
    sequence_number,    \* parse_markdown local
    chunkIdx,           \* 1-based position of the for-chunk loop
    total_characters,
    total_chunks,
    total_batches,
    batches,
    result,             \* what chunk_documents returned, None before
    exception,          \* the exception that left chunk_documents, None if none
    calls,              \* history: every splitter invocation of the call
    request,            \* the operation's argument, None without a caller
    ipc,                \* position of the operation, "off" without a caller
    batch_idx,          \* ingest_operation: the enumerate index of the Redis loop
    effects,            \* history: every external call of the operation
    locals              \* the locals of the other operations, by name

vars ==
    <<documents, batch_size, language_code, pc, docIdx, page_number, rules,
      recursive_chunker, table_chunker, code_chunker, items, itemIdx,
      final_chunks, sequence_number, chunkIdx, total_characters,
      total_chunks, total_batches, batches, result, exception, calls,
      request, ipc, batch_idx, effects, locals>>

\* the state of the caller: chunk_documents never changes it
ingestVars == <<request, ipc, batch_idx, effects, locals>>
\* what chunk_documents is given and never changes
inputVars == <<documents, batch_size, language_code, ingestVars>>
parseVars ==
    <<rules, recursive_chunker, table_chunker, code_chunker, items, itemIdx,
      final_chunks, sequence_number>>
packVars ==
    <<chunkIdx, total_characters, total_chunks, total_batches, batches>>
\* everything of a chunk_documents call but its position
callVars ==
    <<docIdx, page_number, parseVars, packVars, result, exception, calls>>

(***************************************************************************)
(* The structural parser (external) and the element router's ordering      *)
(***************************************************************************)
MarkdownTable(i) ==
    [kind |-> "MarkdownTable", start_index |-> i, language |-> None]
MarkdownCode(i, l) ==
    [kind |-> "MarkdownCode", start_index |-> i, language |-> l]
Chunk(i) ==
    [kind |-> "Chunk", start_index |-> i, language |-> None]

Min(a, b) == IF a <= b THEN a ELSE b

\* the members of a finite set of integers, ascending (order of appearance)
RECURSIVE Ascending(_)
Ascending(S) ==
    IF S = {} THEN <<>>
    ELSE LET m == CHOOSE x \in S : \A y \in S : x <= y
         IN  <<m>> \o Ascending(S \ {m})

\* a faulty variant of extract_images: the chef's own extraction finds an image
extract_images_enabled(markdown) ==
    <<[kind |-> "MarkdownImage", start_index |-> 0, language |-> None]>>

\* CustomMarkdownChef.extract_images
extract_images(markdown) == <<>>

\* chef.parse: every document model the chef can return with at most n
\* elements; each family is in order of appearance and the first element of
\* the text starts at offset 0
ChefDocuments(n) ==
    {[tables |-> [k \in 1..Len(Ascending(T)) |-> MarkdownTable(Ascending(T)[k])],
      code   |-> [k \in 1..Len(Ascending(C)) |->
                     MarkdownCode(Ascending(C)[k], l[Ascending(C)[k]])],
      images |-> extract_images("md"),
      chunks |-> [k \in 1..Len(Ascending(P)) |-> Chunk(Ascending(P)[k])]] :
        <<T, C, P, l>> \in
            {q \in (SUBSET StartIndexes) \X (SUBSET StartIndexes)
                   \X (SUBSET StartIndexes) \X [StartIndexes -> CodeLanguages] :
                /\ Cardinality(q[1]) + Cardinality(q[2]) + Cardinality(q[3]) <= n
                /\ \A i \in StartIndexes \ q[2] : q[4][i] = None
                /\ q[1] \cup q[2] \cup q[3] # {} => 0 \in q[1] \cup q[2] \cup q[3]}}

\* the document models of markdown that holds prose only
ProseDocuments(n) ==
    {d \in ChefDocuments(n) : d.tables = <<>> /\ d.code = <<>>}

\* a faulty variant of InsertByKey: an element goes before the elements of equal key
InsertBeforeEqual(x, s) ==
    LET before == SelectSeq(s, LAMBDA e : e.start_index < x.start_index)
        after  == SelectSeq(s, LAMBDA e : e.start_index >= x.start_index)
    IN  before \o <<x>> \o after

\* insertion into a list sorted by start_index, after the elements of equal key
InsertByKey(x, s) ==
    LET before == SelectSeq(s, LAMBDA e : e.start_index <= x.start_index)
        after  == SelectSeq(s, LAMBDA e : e.start_index > x.start_index)
    IN  before \o <<x>> \o after

\* items.sort(key=lambda x: x.start_index): list.sort is stable
RECURSIVE sort(_)
sort(s) ==
    IF s = <<>> THEN <<>>
    ELSE InsertByKey(s[Len(s)], sort(SubSeq(s, 1, Len(s) - 1)))

\* the items list of parse_markdown: concatenation, then the sort
Items(document) ==
    sort(document.tables \o document.code \o document.images \o document.chunks)

(***************************************************************************)
(* Splitters (external) as the router constructs them                      *)
(***************************************************************************)
\* the rules a prose splitter is meant to get
Rules(language) ==
    IF language # None /\ language[1] \in langs
    THEN [origin |-> "RecursiveRules.from_recipe", lang |-> language]
    ELSE [origin |-> "RecursiveRules()", lang |-> None]

\* the rules argument of the fallback: the RecursiveRules class itself
FallbackRules == [origin |-> "RecursiveRules", lang |-> None]

\* at: the (document, item) position constructing the instance, its identity
TableChunker(cs, at) ==
    [class |-> "TableChunker", chunk_size |-> cs, language |-> None,
     rules |-> None, at |-> at]
CodeChunker(l, cs, at) ==
    [class |-> "CodeChunker", chunk_size |-> cs, language |-> Some(l),
     rules |-> None, at |-> at]
\* a faulty variant of RecursiveChunker: chunk_size is not passed on
RecursiveChunkerOwnSize(cs, r, at) ==
    [class |-> "RecursiveChunker", chunk_size |-> 2 * cs, language |-> None,
     rules |-> Some(r), at |-> at]
RecursiveChunker(cs, r, at) ==
    [class |-> "RecursiveChunker", chunk_size |-> cs, language |-> None,
     rules |-> Some(r), at |-> at]

\* the piece lists a splitter can return when n more chunks fit the bound:
\* one to n pieces, of which only the last may be whitespace alone
PieceLists(n) ==
    {[i \in 1..k |-> IF i = k THEN last ELSE <<" ", "a", " ">>] :
        <<k, last>> \in (1..n) \X RawTexts}


(***************************************************************************)
(* chunk_documents / parse_markdown, step by step                          *)
(***************************************************************************)
\* uuid.uuid4(): the n-th identifier drawn, distinct from every other
uuid4(n) == <<"uuid", n>>

\* the lists of at most MaxDocs documents drawn from D
DocumentLists(D) == UNION {[1..n -> D] : n \in 0..MaxDocs}

\* the locals of chunk_documents and parse_markdown at entry
LocalsAtEntry ==
    /\ docIdx = 1
    /\ page_number = None
    /\ rules = None
    /\ recursive_chunker = None
    /\ table_chunker = None
    /\ code_chunker = None
    /\ items = <<>>
    /\ itemIdx = 1
    /\ final_chunks = <<>>
    /\ sequence_number = 0
    /\ chunkIdx = 1
    /\ total_characters = 0
    /\ total_chunks = 0
    /\ total_batches = 0
    /\ batches = <<>>
    /\ result = None
    /\ exception = None
    /\ calls = <<>>

\* the state at entry of chunk_documents, its arguments drawn from D, B, L
InitWith(D, B, L) ==
    /\ documents \in DocumentLists(D)
    /\ batch_size \in B
    /\ language_code \in L
    /\ pc = "doc"
    /\ LocalsAtEntry
    /\ request = None
    /\ ipc = "off"
    /\ batch_idx = 0
    /\ effects = <<>>
    /\ locals = None

\* calls on markdown of every structure: documents without a page, a
\* supported language, a batch size of zero or two
Init ==
    InitWith({[text |-> "md"]}, {Some(0), Some(2)}, {Some("en")})

\* calls on markdown of every structure with batching disabled: documents
\* without a page, no language
InitRoute ==
    InitWith({[text |-> "md"]}, {None}, {None})

\* calls on prose-only markdown: every form of page and every batch size,
\* no language
InitPack ==
    InitWith(Documents, BatchSizes, {None})

\* elements the chef has returned so far in this call (every element of a
\* finished document was dispatched, so it is in the history)
ElementsSoFar ==
    Cardinality({<<calls[k].doc, calls[k].item>> : k \in 1..Len(calls)})

\* a faulty variant of Raise: the exception is swallowed and the loop goes on
RaiseSwallowed(e) ==
    /\ pc' = pc
    /\ exception' = Some(e)
    /\ result' = result

\* an exception leaves chunk_documents: nothing is returned
Raise(e) ==
    /\ pc' = "raised"
    /\ exception' = Some(e)
    /\ result' = None

\* doc["page"] if "page" in doc else None
PageOf(doc) == IF "page" \in DOMAIN doc THEN doc.page ELSE None

\* a faulty variant of EnterParse: the splitter handles outlive the invocation
EnterParseKeepingHandles ==
    /\ page_number' = PageOf(documents[docIdx])
    /\ rules' = Rules(language_code)
    /\ UNCHANGED <<recursive_chunker, table_chunker, code_chunker>>

\* the locals parse_markdown sets before it parses
EnterParse ==
    /\ page_number' = PageOf(documents[docIdx])
    /\ rules' = Rules(language_code)
    /\ recursive_chunker' = None
    /\ table_chunker' = None
    /\ code_chunker' = None

\* elements the chef may still return within the model's bounds
ElementBudget == Min(MaxElems - ElementsSoFar, MaxChunks - total_chunks)

\* for doc in documents: parse_markdown up to the sorted items list, the
\* chef returning a document model out of family
ParseFrom(family) ==
    /\ pc = "doc"
    /\ docIdx <= Len(documents)
    /\ EnterParse
    /\ \E document \in family : items' = Items(document)
    /\ itemIdx' = 1
    /\ final_chunks' = <<>>
    /\ sequence_number' = 0
    /\ pc' = "items"
    /\ UNCHANGED <<inputVars, docIdx, packVars, result, exception, calls>>

\* markdown of any structure
ParseDocument == ParseFrom(ChefDocuments(ElementBudget))

\* markdown that holds prose only
ParseProse == ParseFrom(ProseDocuments(ElementBudget))

\* chef.parse raises: nothing catches it
ParseFail ==
    /\ pc = "doc"
    /\ docIdx <= Len(documents)
    /\ EnterParse
    /\ Raise("MarkdownChef.parse")
    /\ UNCHANGED <<inputVars, docIdx, items, itemIdx, final_chunks,
                   sequence_number, packVars, calls>>

AtItem(kinds) ==
    /\ pc = "items"
    /\ itemIdx <= Len(items)
    /\ items[itemIdx].kind \in kinds

\* pieces that still fit the model's bound, one left for each later element
PieceBudget ==
    MaxChunks - total_chunks - Len(final_chunks) - (Len(items) - itemIdx)

\* one splitter invocation: the splitter (None if its constructor raised),
\* whether it raised, and the pieces it returned (none if it raised)
Call(via, splitter, raised, returned) ==
    [doc |-> docIdx, item |-> itemIdx, via |-> via, splitter |-> splitter,
     raised |-> raised, returned |-> returned]

\* a faulty variant of Emitted: a piece that trims to nothing is dropped
EmittedNonEmpty(pieces, from) ==
    LET kept == SelectSeq(pieces, LAMBDA p : strip(p) # <<>>)
    IN  [k \in 1..Len(kept) |->
            [text |-> strip(kept[k]),
             metadata |-> [sequence_number |-> from + k - 1],
             origin |-> [doc |-> docIdx, item |-> itemIdx, piece |-> k,
                         kind |-> items[itemIdx].kind,
                         start_index |-> items[itemIdx].start_index,
                         raw |-> kept[k]]]]

\* for chunk in chunks: final_chunks.append(...), numbered from `from`
Emitted(pieces, from) ==
    [k \in 1..Len(pieces) |->
        [text |-> strip(pieces[k]),
         metadata |-> [sequence_number |-> from + k - 1],
         origin |-> [doc |-> docIdx, item |-> itemIdx, piece |-> k,
                     kind |-> items[itemIdx].kind,
                     start_index |-> items[itemIdx].start_index,
                     raw |-> pieces[k]]]]

\* the end of one iteration of the for-item loop
Emit(pieces) ==
    /\ final_chunks' = final_chunks \o Emitted(pieces, sequence_number)
    /\ sequence_number' = sequence_number + Len(pieces)
    /\ itemIdx' = itemIdx + 1

\* a faulty variant of TableChunkerFor: every table gets a splitter of its own
TableChunkerFresh == TableChunker(chunk_size, <<docIdx, itemIdx>>)

\* if table_chunker is None: table_chunker = TableChunker(chunk_size=chunk_size)
TableChunkerFor ==
    IF table_chunker = None
    THEN TableChunker(chunk_size, <<docIdx, itemIdx>>)
    ELSE table_chunker[1]

\* isinstance(item, MarkdownTable): the table splitter returns pieces
RouteTable ==
    /\ AtItem({"MarkdownTable"})
    /\ table_chunker' = Some(TableChunkerFor)
    /\ \E pieces \in PieceLists(PieceBudget) :
          /\ calls' = Append(calls, Call("table", Some(TableChunkerFor), FALSE, pieces))
          /\ Emit(pieces)
    /\ UNCHANGED <<inputVars, pc, docIdx, page_number, rules, recursive_chunker,
                   code_chunker, items, packVars, result, exception>>

\* the table splitter raises: nothing catches it
TableFail ==
    /\ AtItem({"MarkdownTable"})
    /\ table_chunker' = Some(TableChunkerFor)
    /\ calls' = Append(calls, Call("table", Some(TableChunkerFor), TRUE, <<>>))
    /\ Raise("TableChunker.chunk")
    /\ UNCHANGED <<inputVars, docIdx, page_number, rules, recursive_chunker,
                   code_chunker, items, itemIdx, final_chunks, sequence_number,
                   packVars>>

\* the else branch: the prose splitter returns pieces
RouteProse ==
    /\ AtItem({"Chunk", "MarkdownImage"})
    /\ LET chunker == IF recursive_chunker = None
                      THEN RecursiveChunker(chunk_size, rules, <<docIdx, itemIdx>>)
                      ELSE recursive_chunker[1]
       IN  /\ recursive_chunker' = Some(chunker)
           /\ \E pieces \in PieceLists(PieceBudget) :
                 /\ calls' = Append(calls, Call("prose", Some(chunker), FALSE, pieces))
                 /\ Emit(pieces)
    /\ UNCHANGED <<inputVars, pc, docIdx, page_number, rules, table_chunker,
                   code_chunker, items, packVars, result, exception>>

\* the prose splitter raises in the else branch: nothing catches it
ProseFail ==
    /\ AtItem({"Chunk", "MarkdownImage"})
    /\ LET chunker == IF recursive_chunker = None
                      THEN RecursiveChunker(chunk_size, rules, <<docIdx, itemIdx>>)
                      ELSE recursive_chunker[1]
       IN  /\ recursive_chunker' = Some(chunker)
           /\ calls' = Append(calls, Call("prose", Some(chunker), TRUE, <<>>))
    /\ Raise("RecursiveChunker.chunk")
    /\ UNCHANGED <<inputVars, docIdx, page_number, rules, table_chunker,
                   code_chunker, items, itemIdx, final_chunks, sequence_number,
                   packVars>>


\* a faulty variant of NeedsNewCodeChunker: a block without a language counts
\* as a change of language
NeedsNewCodeChunkerOnAnyChange(item) ==
    \/ code_chunker = None
    \/ code_chunker[1].language # item.language

\* code_chunker is None or (item.language is not None and
\* code_chunker.language != item.language)
NeedsNewCodeChunker(item) ==
    \/ code_chunker = None
    \/ /\ item.language # None
       /\ code_chunker[1].language # item.language

\* the outcomes of the try block for a code element: the handle after it,
\* the splitter whose chunk() ran (None if the constructor raised) and
\* whether an exception reached the except clause.  The constructor loads
\* the grammar of a declared language and raises if there is none; chunk()
\* of a splitter that was built may raise or return.
CodeAttempts(item) ==
    LET new  == CodeChunker(IF item.language = None THEN "auto" ELSE item.language[1],
                            chunk_size, <<docIdx, itemIdx>>)
        used == IF NeedsNewCodeChunker(item) THEN new ELSE code_chunker[1]
    IN  IF used.language[1] \notin RecognizedGrammars
        THEN {[after |-> code_chunker, called |-> None, raised |-> TRUE]}
        ELSE {[after |-> Some(used), called |-> Some(used), raised |-> r] :
                 r \in BOOLEAN}

\* isinstance(item, MarkdownCode): the code splitter returns pieces
RouteCode ==
    /\ AtItem({"MarkdownCode"})
    /\ \E a \in CodeAttempts(items[itemIdx]), pieces \in PieceLists(PieceBudget) :
          /\ ~a.raised
          /\ code_chunker' = a.after
          /\ calls' = Append(calls, Call("code", a.called, FALSE, pieces))
          /\ Emit(pieces)
    /\ UNCHANGED <<inputVars, pc, docIdx, page_number, rules, recursive_chunker,
                   table_chunker, items, packVars, result, exception>>

\* except Exception: the splitter the fallback chunks with
FallbackChunker ==
    IF recursive_chunker = None
    THEN RecursiveChunker(chunk_size, FallbackRules, <<docIdx, itemIdx>>)
    ELSE recursive_chunker[1]

\* the code splitter raises; the except clause chunks the content as prose
RouteCodeFallback ==
    /\ AtItem({"MarkdownCode"})
    /\ \E a \in CodeAttempts(items[itemIdx]), pieces \in PieceLists(PieceBudget) :
          /\ a.raised
          /\ code_chunker' = a.after
          /\ calls' = calls \o <<Call("code", a.called, TRUE, <<>>),
                                 Call("fallback", Some(FallbackChunker), FALSE, pieces)>>
          /\ Emit(pieces)
    /\ recursive_chunker' = Some(FallbackChunker)
    /\ UNCHANGED <<inputVars, pc, docIdx, page_number, rules, table_chunker,
                   items, packVars, result, exception>>

\* the code splitter raises and so does the except clause, either building
\* RecursiveChunker(rules=RecursiveRules) or chunking with the handle
FallbackFail ==
    /\ AtItem({"MarkdownCode"})
    /\ \E a \in CodeAttempts(items[itemIdx]) :
          /\ a.raised
          /\ code_chunker' = a.after
          /\ \/ /\ recursive_chunker = None
                /\ recursive_chunker' = None
                /\ calls' = calls \o <<Call("code", a.called, TRUE, <<>>),
                                       Call("fallback", None, TRUE, <<>>)>>
                /\ Raise("RecursiveChunker.__init__")
             \/ /\ recursive_chunker' = Some(FallbackChunker)
                /\ calls' = calls \o <<Call("code", a.called, TRUE, <<>>),
                                       Call("fallback", Some(FallbackChunker), TRUE, <<>>)>>
                /\ Raise("RecursiveChunker.chunk")
    /\ UNCHANGED <<inputVars, docIdx, page_number, rules, table_chunker,
                   items, itemIdx, final_chunks, sequence_number, packVars>>

\* return final_chunks; chunk_documents starts its for-chunk loop
ReturnParse ==
    /\ pc = "items"
    /\ itemIdx > Len(items)
    /\ pc' = "pack"
    /\ chunkIdx' = 1
    /\ UNCHANGED <<inputVars, docIdx, page_number, parseVars, total_characters,
                   total_chunks, total_batches, batches, result, exception, calls>>

\* a faulty variant of SequenceNumberOf: the number parse_markdown gave the chunk
SequenceNumberPerDocument(chunk) == chunk.metadata.sequence_number

\* "metadata": {"sequence_number": total_chunks}
SequenceNumberOf(chunk) == total_chunks

\* a faulty variant of ChunkDict: the page is attached only when it is truthy
ChunkDictTruthyPage(chunk) ==
    [id |-> uuid4(total_chunks),
     text |-> chunk.text,
     metadata |->
        IF page_number # None /\ page_number # Some(0)
        THEN [sequence_number |-> SequenceNumberOf(chunk),
              page_number |-> page_number[1]]
        ELSE [sequence_number |-> SequenceNumberOf(chunk)],
     origin |-> chunk.origin]

\* chunk_dict, with page_number attached if it is not None
ChunkDict(chunk) ==
    [id |-> uuid4(total_chunks),
     text |-> chunk.text,
     metadata |->
        IF page_number # None
        THEN [sequence_number |-> SequenceNumberOf(chunk),
              page_number |-> page_number[1]]
        ELSE [sequence_number |-> SequenceNumberOf(chunk)],
     origin |-> chunk.origin]

\* a faulty variant of StartsNewBatch: a separate counter decides, off by one
StartsNewBatchOffByOne(b) ==
    Len(batches) = 0 \/ PyMod(Len(batches[Len(batches)]), b + 1) = 0

\* len(batches) == 0 or len(batches[-1]) % batch_size == 0
StartsNewBatch(b) ==
    Len(batches) = 0 \/ PyMod(Len(batches[Len(batches)]), b) = 0

\* a faulty variant of CountedCharacters: the untrimmed piece is counted
CountedCharactersRaw(chunk_dict) == Len(chunk_dict.origin.raw)

\* len(chunk_dict["text"])
CountedCharacters(chunk_dict) == Len(chunk_dict.text)

\* a faulty variant of TotalBatchesAfter: every chunk counts as a batch
TotalBatchesPerChunk(opens) == total_batches + 1

\* total_batches += 1, in the branch that starts a new batch only
TotalBatchesAfter(opens) ==
    IF opens THEN total_batches + 1 ELSE total_batches

\* a faulty variant of AppendFlat: the list is restarted at every chunk
AppendFlatRestarting(b, chunk_dict) == <<chunk_dict>>

\* batches.append(chunk_dict), batching disabled
AppendFlat(b, chunk_dict) == Append(b, chunk_dict)

\* the modulo of line 189 is evaluated and its divisor is zero
DividesByZero ==
    batch_size # None /\ Len(batches) # 0 /\ batch_size[1] = 0

\* one iteration of the for-chunk loop
PackChunk ==
    /\ pc = "pack"
    /\ chunkIdx <= Len(final_chunks)
    /\ ~DividesByZero
    /\ LET chunk_dict == ChunkDict(final_chunks[chunkIdx])
       IN  /\ total_chunks' = total_chunks + 1
           /\ total_characters' = total_characters + CountedCharacters(chunk_dict)
           /\ IF batch_size = None
              THEN /\ batches' = AppendFlat(batches, chunk_dict)
                   /\ total_batches' = total_batches
              ELSE IF StartsNewBatch(batch_size[1])
              THEN /\ batches' = Append(batches, <<chunk_dict>>)
                   /\ total_batches' = TotalBatchesAfter(TRUE)
              ELSE /\ batches' = [batches EXCEPT ![Len(batches)] =
                                        Append(@, chunk_dict)]
                   /\ total_batches' = TotalBatchesAfter(FALSE)
    /\ chunkIdx' = chunkIdx + 1
    /\ UNCHANGED <<inputVars, pc, docIdx, page_number, parseVars, result,
                   exception, calls>>

\* batch_size == 0 and a group exists: the modulo raises ZeroDivisionError
PackFail ==
    /\ pc = "pack"
    /\ chunkIdx <= Len(final_chunks)
    /\ DividesByZero
    /\ total_chunks' = total_chunks + 1
    /\ total_characters' =
            total_characters + CountedCharacters(ChunkDict(final_chunks[chunkIdx]))
    /\ Raise("ZeroDivisionError")
    /\ UNCHANGED <<inputVars, docIdx, page_number, parseVars, chunkIdx,
                   total_batches, batches, calls>>

\* the for-chunk loop ends: on to the next document
EndPack ==
    /\ pc = "pack"
    /\ chunkIdx > Len(final_chunks)
    /\ docIdx' = docIdx + 1
    /\ pc' = "doc"
    /\ UNCHANGED <<inputVars, page_number, parseVars, packVars, result,
                   exception, calls>>

\* return batches, total_characters, total_chunks, total_batches
Return ==
    /\ pc = "doc"
    /\ docIdx > Len(documents)
    /\ pc' = "done"
    /\ result' = Some([batches |-> batches,
                       total_characters |-> total_characters,
                       total_chunks |-> total_chunks,
                       total_batches |-> total_batches])
    /\ UNCHANGED <<inputVars, docIdx, page_number, parseVars, packVars,
                   exception, calls>>

Next ==
    \/ ParseDocument
    \/ ParseFail
    \/ RouteTable
    \/ TableFail
    \/ RouteCode
    \/ RouteCodeFallback
    \/ FallbackFail
    \/ RouteProse
    \/ ProseFail
    \/ ReturnParse
    \/ PackChunk
    \/ PackFail
    \/ EndPack
    \/ Return

Spec == Init /\ [][Next]_vars

\* chunk_documents with batching disabled: the modulo is never evaluated
NextRoute ==
    \/ ParseDocument
    \/ ParseFail
    \/ RouteTable
    \/ TableFail
    \/ RouteCode
    \/ RouteCodeFallback
    \/ FallbackFail
    \/ RouteProse
    \/ ProseFail
    \/ ReturnParse
    \/ PackChunk
    \/ EndPack
    \/ Return

SpecRoute == InitRoute /\ [][NextRoute]_vars

\* chunk_documents on prose-only markdown
NextPack ==
    \/ ParseProse
    \/ ParseFail
    \/ RouteProse
    \/ ProseFail
    \/ ReturnParse
    \/ PackChunk
    \/ PackFail
    \/ EndPack
    \/ Return

SpecPack == InitPack /\ [][NextPack]_vars

(***************************************************************************)
(* ingest_operation, stage by stage, around one chunk_documents call       *)
(***************************************************************************)
\* IngestRequest.url and IngestRequest.text: absent, empty or given
Urls == {None, Some(""), Some("u")}
Texts == {None, Some("t")}
\* IngestRequest.batch_size: an int
IngestBatchSizes == {Some(-2), Some(0), Some(2)}

\* fastapi.status
HTTP_200_OK == 200
HTTP_400_BAD_REQUEST == 400
HTTP_500_INTERNAL_SERVER_ERROR == 500

\* parse_document: result.pages, one entry per page that is not blank,
\* numbered from 1 in page order
DatalabPages ==
    {[k \in 1..Len(Ascending(S)) |-> [text |-> "md", page |-> Some(Ascending(S)[k])]] :
        S \in SUBSET (1..MaxDocs)}

\* [{"text": ..., "page": None}] of parse_csv and MarkItDown
SinglePage == <<[text |-> "md", page |-> None]>>

\* the state at entry of ingest_operation
InitIngest ==
    /\ request \in {[url |-> u, text |-> t] : u \in Urls, t \in Texts}
    /\ batch_size \in IngestBatchSizes
    /\ language_code = None
    /\ documents = <<>>
    /\ pc = "idle"
    /\ LocalsAtEntry
    /\ ipc = "validate"
    /\ batch_idx = 0
    /\ effects = <<>>
    /\ locals = None

\* a faulty variant of input_sources: only a truthy url or text counts
input_sources_truthy(req) ==
    (IF req.url # None /\ req.url # Some("") THEN 1 ELSE 0)
        + (IF req.text # None /\ req.text # Some("") THEN 1 ELSE 0)

\* sum(1 for x in [request.url, request.text] if x is not None)
input_sources(req) ==
    (IF req.url # None THEN 1 ELSE 0) + (IF req.text # None THEN 1 ELSE 0)

\* one external call: what was called, with what, and whether it raised
Effect(op, arg, raised) == [op |-> op, arg |-> arg, raised |-> raised]

\* return notify_workflow(status, body) with no handler around it: the POST
\* is made; if it or raise_for_status raises, the exception leaves
\* ingest_operation
NotifyAndReturn(sofar, status, message) ==
    \E raised \in BOOLEAN :
        /\ effects' = Append(sofar, Effect("notify", <<status, message>>, raised))
        /\ ipc' = IF raised THEN "raised" ELSE "returned"

\* a faulty variant of ExceptHandler: the exception is let through
ExceptHandlerReraising(sofar, e) ==
    /\ effects' = sofar
    /\ ipc' = "raised"

\* except Exception as e: return notify_workflow(500, {"message": str(e)})
ExceptHandler(sofar, e) ==
    NotifyAndReturn(sofar, HTTP_500_INTERNAL_SERVER_ERROR, e)

\* return notify_workflow(status, body) inside the try block: an exception
\* of the notification is caught by the except clause
NotifyInTry(sofar, status, message) ==
    \/ /\ effects' = Append(sofar, Effect("notify", <<status, message>>, FALSE))
       /\ ipc' = "returned"
    \/ ExceptHandler(Append(sofar, Effect("notify", <<status, message>>, TRUE)),
                     "notify_workflow")

\* if input_sources != 1: return notify_workflow(400, ...)
Validate ==
    /\ ipc = "validate"
    /\ IF input_sources(request) # 1
       THEN NotifyAndReturn(effects, HTTP_400_BAD_REQUEST,
                            "Only one of url or text can be provided")
       ELSE ipc' = "extract" /\ UNCHANGED effects
    /\ UNCHANGED <<documents, batch_size, language_code, request, batch_idx,
                   pc, callVars, locals>>

\* Python truthiness of an optional string
Truthy(x) == x # None /\ x # Some("")

\* extract_file_from_request in its own try block: a url is downloaded, a
\* text is encoded (request.text is None if the url is the empty string)
Extract ==
    /\ ipc = "extract"
    /\ IF Truthy(request.url)
       THEN \E raised \in BOOLEAN :
               LET made == Append(effects, Effect("download", request.url[1], raised))
               IN  IF raised
                   THEN NotifyAndReturn(made, HTTP_400_BAD_REQUEST,
                                        "Failed to download file")
                   ELSE effects' = made /\ ipc' = "parse"
       ELSE IF request.text = None
       THEN NotifyAndReturn(effects, HTTP_400_BAD_REQUEST, "Failed to download file")
       ELSE ipc' = "parse" /\ UNCHANGED effects
    /\ UNCHANGED <<documents, batch_size, language_code, request, batch_idx,
                   pc, callVars, locals>>

\* the parser the mime type and extension of the payload select; datalab
\* only for a file url
Parsers ==
    IF Truthy(request.url)
    THEN {"parse_document", "parse_csv", "MarkItDown.convert"}
    ELSE {"parse_csv", "MarkItDown.convert"}

\* the documents a parser can return
ParsedBy(parser) ==
    IF parser = "parse_document" THEN DatalabPages ELSE {SinglePage}

\* the parser runs; no documents is reported as a failure; otherwise
\* chunk_documents is entered
IngestParse ==
    /\ ipc = "parse"
    /\ \E parser \in Parsers, raised \in BOOLEAN :
          LET made == Append(effects, Effect("parse", parser, raised))
          IN  IF raised
              THEN /\ ExceptHandler(made, parser)
                   /\ UNCHANGED <<documents, pc>>
              ELSE \E docs \in ParsedBy(parser) :
                      /\ documents' = docs
                      /\ IF Len(docs) = 0
                         THEN /\ NotifyInTry(made, HTTP_500_INTERNAL_SERVER_ERROR,
                                             "couldn't parse document")
                              /\ UNCHANGED pc
                         ELSE /\ effects' = made
                              /\ ipc' = "chunk"
                              /\ pc' = "doc"
    /\ UNCHANGED <<batch_size, language_code, request, batch_idx, callVars,
                   locals>>

\* chunk_documents returned: on to the Redis client
ChunkReturned ==
    /\ ipc = "chunk"
    /\ pc = "done"
    /\ ipc' = "redis"
    /\ UNCHANGED <<documents, batch_size, language_code, request, batch_idx,
                   effects, pc, callVars, locals>>

\* chunk_documents raised: the except clause
ChunkRaised ==
    /\ ipc = "chunk"
    /\ pc = "raised"
    /\ ExceptHandler(effects, exception[1])
    /\ UNCHANGED <<documents, batch_size, language_code, request, batch_idx,
                   pc, callVars, locals>>

\* redis_client = Redis(...)
OpenRedis ==
    /\ ipc = "redis"
    /\ \E raised \in BOOLEAN :
          LET made == Append(effects, Effect("Redis", "REDIS_HOST", raised))
          IN  IF raised
              THEN ExceptHandler(made, "Redis")
              ELSE effects' = made /\ ipc' = "batches"
    /\ batch_idx' = 0
    /\ UNCHANGED <<documents, batch_size, language_code, request, pc, callVars, locals>>

\* a faulty variant of BatchesLeft: the loop stops one batch early
BatchesLeftButLast == batch_idx + 1 < Len(result[1].batches)

\* the enumerate loop over batches has an entry left
BatchesLeft == batch_idx < Len(result[1].batches)

\* for batch_idx, batch in enumerate(batches): redis_client.set(...)
StoreBatch ==
    /\ ipc = "batches"
    /\ BatchesLeft
    /\ \E raised \in BOOLEAN :
          LET made == Append(effects, Effect("set", batch_idx, raised))
          IN  IF raised
              THEN ExceptHandler(made, "redis_client.set") /\ UNCHANGED batch_idx
              ELSE /\ effects' = made
                   /\ batch_idx' = batch_idx + 1
                   /\ UNCHANGED ipc
    /\ UNCHANGED <<documents, batch_size, language_code, request, pc, callVars, locals>>

\* upload_chunks_to_r2(...)
Upload ==
    /\ ipc = "batches"
    /\ ~BatchesLeft
    /\ \E raised \in BOOLEAN :
          LET made == Append(effects, Effect("upload", result[1].total_chunks, raised))
          IN  IF raised
              THEN ExceptHandler(made, "upload_chunks_to_r2")
              ELSE effects' = made /\ ipc' = "notify"
    /\ UNCHANGED <<documents, batch_size, language_code, request, batch_idx,
                   pc, callVars, locals>>

\* the body of the success notification, by its "total_batches"
ResultBody == ToString(result[1].total_batches)

\* return notify_workflow(200, result)
NotifySuccess ==
    /\ ipc = "notify"
    /\ NotifyInTry(effects, HTTP_200_OK, ResultBody)
    /\ UNCHANGED <<documents, batch_size, language_code, request, batch_idx,
                   pc, callVars, locals>>

\* ingest_operation around chunk_documents on prose-only markdown
NextIngest ==
    \/ Validate
    \/ Extract
    \/ IngestParse
    \/ ParseProse
    \/ ParseFail
    \/ RouteProse
    \/ ProseFail
    \/ ReturnParse
    \/ PackChunk
    \/ PackFail
    \/ EndPack
    \/ Return
    \/ ChunkReturned
    \/ ChunkRaised
    \/ OpenRedis
    \/ StoreBatch
    \/ Upload
    \/ NotifySuccess

SpecIngest == InitIngest /\ [][NextIngest]_vars


(***************************************************************************)
(* YouTubeConverter._retry_operation (src/src/youtube/converter.py), one   *)
(* call stepped attempt by attempt; the operation is external: each call   *)
(* of it returns or raises                                                  *)
(***************************************************************************)

\* the largest retries argument drawn
MaxRetries == 3

\* the retries arguments drawn: an int, zero and negative included
RetryCounts == -1..MaxRetries

\* the delay arguments drawn, in seconds
Delays == {0, 2}

\* the exceptions an operation raises
OperationErrors == {"RequestBlocked", "VideoUnavailable"}

\* the values around the chunker's one call, at rest
ChunkerAtRest ==
    /\ documents = <<>>
    /\ batch_size = None
    /\ language_code = None
    /\ pc = "idle"
    /\ LocalsAtEntry

\* the variables of the chunker's call
chunkerVars == <<documents, batch_size, language_code, pc, callVars>>

\* the state at entry: attempt = 0
InitRetry ==
    /\ ChunkerAtRest
    /\ request \in {[retries |-> r, delay |-> d] : r \in RetryCounts, d \in Delays}
    /\ ipc = "while"
    /\ batch_idx = 0
    /\ effects = <<>>
    /\ locals = [attempt |-> 0, returned |-> None, raised |-> None]

\* the loop condition, while attempt < retries
AttemptsLeft(attempt, retries) == attempt < retries

\* a faulty variant of SleepsBefore: the delay is waited after every failure
SleepsBeforeOrAfterLast(attempt, retries) == attempt < retries

\* the condition of the sleep in the except clause
SleepsBefore(attempt, retries) == attempt < retries - 1

\* try: return operation(); the operation returns, which ends the call with
\* its value, or raises, which enters the except clause
RetryAttempt ==
    /\ ipc = "while"
    /\ AttemptsLeft(locals.attempt, request.retries)
    /\ \/ /\ effects' = Append(effects, Effect("operation", "transcript", FALSE))
          /\ locals' = [locals EXCEPT !.returned = Some("transcript")]
          /\ ipc' = "returned"
       \/ \E e \in OperationErrors :
             /\ effects' = Append(effects, Effect("operation", e, TRUE))
             /\ locals' = locals
             /\ ipc' = "except"
    /\ UNCHANGED <<chunkerVars, request, batch_idx>>

\* except Exception: sleep(delay) if another attempt follows; attempt += 1
RetryExcept ==
    /\ ipc = "except"
    /\ effects' = IF SleepsBefore(locals.attempt, request.retries)
                  THEN Append(effects, Effect("sleep", request.delay, FALSE))
                  ELSE effects
    /\ locals' = [locals EXCEPT !.attempt = @ + 1]
    /\ ipc' = "while"
    /\ UNCHANGED <<chunkerVars, request, batch_idx>>

\* the message of the exception raised after the loop
FailedAfter(retries) ==
    "Operation failed after " \o ToString(retries) \o " attempts."

\* the loop is left: raise Exception("Operation failed after ... attempts.")
RetryGiveUp ==
    /\ ipc = "while"
    /\ ~AttemptsLeft(locals.attempt, request.retries)
    /\ locals' = [locals EXCEPT !.raised = Some(FailedAfter(request.retries))]
    /\ ipc' = "raised"
    /\ UNCHANGED <<chunkerVars, request, batch_idx, effects>>

NextRetry ==
    \/ RetryAttempt
    \/ RetryExcept
    \/ RetryGiveUp

SpecRetry == InitRetry /\ [][NextRetry]_vars

(***************************************************************************)
(* _get_and_wait_for_job (src/src/datalab_parser.py), one call stepped     *)
(* request by request; the datalab API is external: each GET raises or     *)
(* answers with a job of any status                                        *)
(***************************************************************************)

\* the number of status requests the loop allows
_max_polls == 600

\* the jobs the API answers with; success is a boolean or absent (None)
Jobs ==
    [status : {"processing", "complete", "failed"},
     success : {Some(TRUE), Some(FALSE), None}]

\* the state at entry: job = None, no request made
InitPoll ==
    /\ ChunkerAtRest
    /\ request = [job_id |-> "j"]
    /\ ipc = "for"
    /\ batch_idx = 0
    /\ effects = <<>>
    /\ locals = [i |-> 0, job |-> None, returned |-> None, raised |-> None]

\* a faulty variant of PollsLeft: one request more than _max_polls
PollsLeftInclusive(i) == i <= _max_polls

\* for i in range(_max_polls) has a value left; i counts the iterations begun
PollsLeft(i) == i < _max_polls

\* response = _session.get(url); job = response.json(): the request or the
\* decoding raises, which leaves the function, or a job is bound; a job
\* whose status is not "processing" breaks out of the loop
PollGet ==
    /\ ipc = "for"
    /\ PollsLeft(locals.i)
    /\ \/ /\ effects' = Append(effects, Effect("get", "ConnectionError", TRUE))
          /\ locals' = [locals EXCEPT !.raised = Some("ConnectionError")]
          /\ ipc' = "raised"
       \/ \E job \in Jobs :
             /\ effects' = Append(effects, Effect("get", job.status, FALSE))
             /\ locals' = [locals EXCEPT !.job = Some(job)]
             /\ ipc' = IF job.status # "processing" THEN "after" ELSE "sleep"
    /\ UNCHANGED <<chunkerVars, request, batch_idx>>

\* print(...); time.sleep(5), then the next value of the range
PollSleep ==
    /\ ipc = "sleep"
    /\ effects' = Append(effects, Effect("sleep", 5, FALSE))
    /\ locals' = [locals EXCEPT !.i = @ + 1]
    /\ ipc' = "for"
    /\ UNCHANGED <<chunkerVars, request, batch_idx>>

\* the range is exhausted: the loop ends with the last job bound
PollExhausted ==
    /\ ipc = "for"
    /\ ~PollsLeft(locals.i)
    /\ ipc' = "after"
    /\ UNCHANGED <<chunkerVars, request, batch_idx, effects, locals>>

\* what follows the loop: job["success"] of a job without the key raises
\* KeyError; a job that failed raises; any other job is returned as a
\* ConversionResult, here by its status
PollFinish ==
    /\ ipc = "after"
    /\ LET job == locals.job[1]
       IN  IF job.success = None
           THEN /\ locals' = [locals EXCEPT !.raised = Some("KeyError")]
                /\ ipc' = "raised"
           ELSE IF job.success = Some(FALSE) \/ job.status = "failed"
           THEN /\ locals' = [locals EXCEPT !.raised = Some("Job failed")]
                /\ ipc' = "raised"
           ELSE /\ locals' = [locals EXCEPT !.returned = Some(job.status)]
                /\ ipc' = "returned"
    /\ UNCHANGED <<chunkerVars, request, batch_idx, effects>>

NextPoll ==
    \/ PollGet
    \/ PollSleep
    \/ PollExhausted
    \/ PollFinish

\* the function is sequential code: a step that can be taken is taken,
\* every GET and every sleep returning or raising
FairSpecPoll == InitPoll /\ [][NextPoll]_vars /\ WF_vars(NextPoll)

(***************************************************************************)
(* crawl_operation (src/src/crawl.py), stage by stage, around one          *)
(* chunk_documents call per crawled page; firecrawl, the upload and the    *)
(* notification are external calls that return or raise                    *)
(***************************************************************************)

\* the most pages a crawl returns
MaxPages == 2

\* metadata.language of a crawled page: absent, supported, not supported
PageLanguages == {None, Some("fr"), Some("xx")}

\* chunk_options.language_code of the request as received
RequestLanguages == {None, Some("en")}

\* crawl_job.status
CrawlStatuses == {"completed", "failed", "cancelled"}

\* crawl_job.data: the pages, each with its markdown and metadata
RECURSIVE PageLists(_)
PageLists(n) ==
    IF n = 0
    THEN {<<>>}
    ELSE PageLists(n - 1) \cup
         {Append(pages, [markdown |-> "md", language |-> l]) :
             pages \in {ps \in PageLists(n - 1) : Len(ps) = n - 1},
             l \in PageLanguages}

\* a call chunk_documents(documents=docs, batch_size=size, ...) is entered:
\* its locals are fresh
EnterChunkDocuments(docs, size) ==
    /\ documents' = docs
    /\ batch_size' = size
    /\ pc' = "doc"
    /\ docIdx' = 1
    /\ page_number' = None
    /\ rules' = None
    /\ recursive_chunker' = None
    /\ table_chunker' = None
    /\ code_chunker' = None
    /\ items' = <<>>
    /\ itemIdx' = 1
    /\ final_chunks' = <<>>
    /\ sequence_number' = 0
    /\ chunkIdx' = 1
    /\ total_characters' = 0
    /\ total_chunks' = 0
    /\ total_batches' = 0
    /\ batches' = <<>>
    /\ result' = None
    /\ exception' = None
    /\ calls' = <<>>

\* the state at entry; request keeps the request as it was received, while
\* language_code is the chunk_options.language_code field, which the
\* operation assigns to
InitCrawl ==
    /\ request \in {[language_code |-> l] : l \in RequestLanguages}
    /\ language_code = request.language_code
    /\ documents = <<>>
    /\ batch_size = None
    /\ pc = "idle"
    /\ LocalsAtEntry
    /\ ipc = "crawl"
    /\ batch_idx = 0
    /\ effects = <<>>
    /\ locals = [data |-> <<>>, documents |-> <<>>]

\* crawl_job = firecrawl.crawl(...); a job that failed, was cancelled or
\* holds no page is reported with status 500
Crawl ==
    /\ ipc = "crawl"
    /\ \E raised \in BOOLEAN :
          LET made == Append(effects, Effect("crawl", "url", raised))
          IN  IF raised
              THEN ExceptHandler(made, "firecrawl.crawl") /\ UNCHANGED locals
              ELSE \E job \in [status : CrawlStatuses, data : PageLists(MaxPages)] :
                      IF \/ job.status = "failed"
                         \/ job.status = "cancelled"
                         \/ Len(job.data) = 0
                      THEN /\ NotifyInTry(made, HTTP_500_INTERNAL_SERVER_ERROR,
                                          "crawl failed")
                           /\ UNCHANGED locals
                      ELSE /\ effects' = made
                           /\ locals' = [locals EXCEPT !.data = job.data]
                           /\ ipc' = "page"
    /\ UNCHANGED <<chunkerVars, request, batch_idx>>

\* the language_code field after
\* if language is not None and language in langs: ...language_code = language
LanguageFor(language, current) ==
    IF language # None /\ language[1] \in langs THEN language ELSE current

\* the page the first loop is at
PageAt == locals.data[Len(locals.documents) + 1]

\* the first loop: the language of the page is assigned to the request's
\* chunk_options when supported, and chunk_documents is entered with the
\* page's markdown, batch_size None and these chunk_options
CrawlPage ==
    /\ ipc = "page"
    /\ Len(locals.documents) < Len(locals.data)
    /\ language_code' = LanguageFor(PageAt.language, language_code)
    /\ EnterChunkDocuments(<<[text |-> PageAt.markdown]>>, None)
    /\ ipc' = "chunk"
    /\ UNCHANGED <<request, batch_idx, effects, locals>>

\* chunk_documents returned: documents.append({...}), with the page's
\* language; chunked_with keeps the language_code the call was given
CrawlChunkReturned ==
    /\ ipc = "chunk"
    /\ pc = "done"
    /\ locals' = [locals EXCEPT !.documents =
                     Append(@, [language |-> PageAt.language,
                                chunked_with |-> language_code,
                                total_chunks |-> result[1].total_chunks])]
    /\ ipc' = "page"
    /\ UNCHANGED <<chunkerVars, request, batch_idx, effects>>

\* chunk_documents raised: the except clause
CrawlChunkRaised ==
    /\ ipc = "chunk"
    /\ pc = "raised"
    /\ ExceptHandler(effects, exception[1])
    /\ UNCHANGED <<chunkerVars, request, batch_idx, locals>>

\* every page is chunked: on to the second loop
CrawlChunked ==
    /\ ipc = "page"
    /\ Len(locals.documents) = Len(locals.data)
    /\ batch_idx' = 0
    /\ ipc' = "uploads"
    /\ UNCHANGED <<chunkerVars, request, effects, locals>>

\* the second loop: upload_chunks_to_r2 for each document
CrawlUpload ==
    /\ ipc = "uploads"
    /\ batch_idx < Len(locals.documents)
    /\ \E raised \in BOOLEAN :
          LET made == Append(effects, Effect("upload", batch_idx, raised))
          IN  IF raised
              THEN ExceptHandler(made, "upload_chunks_to_r2") /\ UNCHANGED batch_idx
              ELSE /\ effects' = made
                   /\ batch_idx' = batch_idx + 1
                   /\ UNCHANGED ipc
    /\ UNCHANGED <<chunkerVars, request, locals>>

\* return notify_workflow(200, {"documents": documents})
CrawlNotify ==
    /\ ipc = "uploads"
    /\ batch_idx = Len(locals.documents)
    /\ NotifyInTry(effects, HTTP_200_OK, ToString(Len(locals.documents)))
    /\ UNCHANGED <<chunkerVars, request, batch_idx, locals>>

\* crawl_operation around chunk_documents on prose-only markdown
NextCrawl ==
    \/ Crawl
    \/ CrawlPage
    \/ ParseProse
    \/ ParseFail
    \/ RouteProse
    \/ ProseFail
    \/ ReturnParse
    \/ PackChunk
    \/ EndPack
    \/ Return
    \/ CrawlChunkReturned
    \/ CrawlChunkRaised
    \/ CrawlChunked
    \/ CrawlUpload
    \/ CrawlNotify

SpecCrawl == InitCrawl /\ [][NextCrawl]_vars

(***************************************************************************)
(* youtube_operation (src/src/yt.py), stage by stage, around one           *)
(* chunk_documents call per video; the url extraction, the transcript API  *)
(* behind YouTubeConverter.convert, the upload and the notification are    *)
(* external calls that return or raise                                     *)
(***************************************************************************)

\* the most videos the urls of a request resolve to
MaxVideos == 2

\* convert(video, ...): ytt_api.list raises, which leaves convert; otherwise
\* the transcript is fetched (with retries) and may be empty; when the fetch
\* failed and "en" is the only language known, the error is printed; when
\* another language is listed, the translated transcript is fetched, which
\* raises out of convert or returns.  What convert returns is always the
\* markdown string, with the transcript section (transcript) or without.
Convert(listed, others, fetched, text, translated) ==
    IF ~listed
    THEN [raised |-> Some("ytt_api.list"), markdown |-> None]
    ELSE IF fetched
    THEN [raised |-> None, markdown |-> Some([transcript |-> text])]
    ELSE IF ~others
    THEN [raised |-> None, markdown |-> Some([transcript |-> FALSE])]
    ELSE IF ~translated
    THEN [raised |-> Some("translate"), markdown |-> None]
    ELSE [raised |-> None, markdown |-> Some([transcript |-> text])]

\* the outcomes of one convert call
ConvertOutcomes ==
    {Convert(listed, others, fetched, text, translated) :
        listed \in BOOLEAN, others \in BOOLEAN, fetched \in BOOLEAN,
        text \in BOOLEAN, translated \in BOOLEAN}

\* the state at entry
InitYoutube ==
    /\ ChunkerAtRest
    /\ request = [urls |-> "urls"]
    /\ ipc = "extract_url"
    /\ batch_idx = 0
    /\ effects = <<>>
    /\ locals = [videos_to_process |-> 0, videos_data |-> <<>>, at |-> 1,
                 documents |-> <<>>, failed_videos |-> <<>>]

\* the first try block: extract_url for every url; its except clause
\* notifies 500 and returns.  Then, in the second try block, no video to
\* process is reported with status 400.  Videos are numbered 1, 2, ...
ExtractUrls ==
    /\ ipc = "extract_url"
    /\ \E raised \in BOOLEAN :
          LET made == Append(effects, Effect("extract_url", "urls", raised))
          IN  IF raised
              THEN /\ NotifyAndReturn(made, HTTP_500_INTERNAL_SERVER_ERROR,
                                      "extract_url")
                   /\ UNCHANGED locals
              ELSE \E n \in 0..MaxVideos :
                      /\ locals' = [locals EXCEPT !.videos_to_process = n]
                      /\ IF n = 0
                         THEN NotifyInTry(made, HTTP_400_BAD_REQUEST,
                                  "Invalid YouTube URL or could not extract info")
                         ELSE effects' = made /\ ipc' = "convert"
    /\ UNCHANGED <<chunkerVars, request, batch_idx>>

\* videos_data = [(video, yt_converter.convert(video, ...)) for video in
\* videos_to_process], one video per step; an exception of convert reaches
\* the except clause
ConvertVideo ==
    /\ ipc = "convert"
    /\ LET video == Len(locals.videos_data) + 1
       IN  \E outcome \in ConvertOutcomes :
              LET made == Append(effects,
                                 Effect("convert", video, outcome.raised # None))
              IN  IF outcome.raised # None
                  THEN /\ ExceptHandler(made, outcome.raised[1])
                       /\ UNCHANGED locals
                  ELSE /\ effects' = made
                       /\ locals' = [locals EXCEPT !.videos_data =
                                        Append(@, [video |-> video,
                                                   markdown |-> outcome.markdown])]
                       /\ ipc' = IF video = locals.videos_to_process
                                 THEN "videos" ELSE "convert"
    /\ UNCHANGED <<chunkerVars, request, batch_idx>>

\* the entry of videos_data the loop is at
VideoAt == locals.videos_data[locals.at]

\* for video, video_markdown in videos_data: a markdown of None adds the
\* video to failed_videos; any other enters chunk_documents
NextVideo ==
    /\ ipc = "videos"
    /\ locals.at <= Len(locals.videos_data)
    /\ IF VideoAt.markdown = None
       THEN /\ locals' = [locals EXCEPT !.failed_videos = Append(@, VideoAt.video),
                                        !.at = @ + 1]
            /\ UNCHANGED <<chunkerVars, ipc>>
       ELSE /\ EnterChunkDocuments(<<[text |-> "md"]>>, None)
            /\ ipc' = "chunk"
            /\ UNCHANGED <<language_code, locals>>
    /\ UNCHANGED <<request, batch_idx, effects>>

\* chunk_documents returned: documents.append({...})
VideoChunkReturned ==
    /\ ipc = "chunk"
    /\ pc = "done"
    /\ locals' = [locals EXCEPT !.documents =
                     Append(@, [video_id |-> VideoAt.video,
                                total_chunks |-> result[1].total_chunks]),
                                !.at = @ + 1]
    /\ ipc' = "videos"
    /\ UNCHANGED <<chunkerVars, request, batch_idx, effects>>

\* chunk_documents raised: the except clause
VideoChunkRaised ==
    /\ ipc = "chunk"
    /\ pc = "raised"
    /\ ExceptHandler(effects, exception[1])
    /\ UNCHANGED <<chunkerVars, request, batch_idx, locals>>

\* the loop is over: no document is reported with status 500, otherwise on
\* to the uploads
VideosChunked ==
    /\ ipc = "videos"
    /\ locals.at > Len(locals.videos_data)
    /\ IF Len(locals.documents) = 0
       THEN NotifyInTry(effects, HTTP_500_INTERNAL_SERVER_ERROR,
                        "No transcripts found for any video")
       ELSE ipc' = "uploads" /\ UNCHANGED effects
    /\ batch_idx' = 0
    /\ UNCHANGED <<chunkerVars, request, locals>>

\* for doc in documents: upload_chunks_to_r2(...)
VideoUpload ==
    /\ ipc = "uploads"
    /\ batch_idx < Len(locals.documents)
    /\ \E raised \in BOOLEAN :
          LET made == Append(effects,
                             Effect("upload", locals.documents[batch_idx + 1].video_id,
                                    raised))
          IN  IF raised
              THEN ExceptHandler(made, "upload_chunks_to_r2") /\ UNCHANGED batch_idx
              ELSE /\ effects' = made
                   /\ batch_idx' = batch_idx + 1
                   /\ UNCHANGED ipc
    /\ UNCHANGED <<chunkerVars, request, locals>>

\* return notify_workflow(200, response_body)
VideosNotify ==
    /\ ipc = "uploads"
    /\ batch_idx = Len(locals.documents)
    /\ NotifyInTry(effects, HTTP_200_OK, ToString(Len(locals.documents)))
    /\ UNCHANGED <<chunkerVars, request, batch_idx, locals>>

\* youtube_operation around chunk_documents on prose-only markdown
NextYoutube ==
    \/ ExtractUrls
    \/ ConvertVideo
    \/ NextVideo
    \/ ParseProse
    \/ ParseFail
    \/ RouteProse
    \/ ProseFail
    \/ ReturnParse
    \/ PackChunk
    \/ EndPack
    \/ Return
    \/ VideoChunkReturned
    \/ VideoChunkRaised
    \/ VideosChunked
    \/ VideoUpload
    \/ VideosNotify

SpecYoutube == InitYoutube /\ [][NextYoutube]_vars

(***************************************************************************)
(* Properties                                                              *)
(***************************************************************************)
RECURSIVE Flatten(_)
Flatten(groups) ==
    IF groups = <<>> THEN <<>> ELSE Head(groups) \o Flatten(Tail(groups))

\* the chunks of a batches value, in the order they were placed
ChunksOf(b) == IF batch_size = None THEN b ELSE Flatten(b)

\* the chunks placed into batches so far
PackedChunks == ChunksOf(batches)

RECURSIVE SumLen(_)
SumLen(texts) ==
    IF texts = <<>> THEN 0 ELSE Len(Head(texts)) + SumLen(Tail(texts))

\* origin a comes before origin b: document, then element, then piece
OriginBefore(a, b) ==
    \/ a.doc < b.doc
    \/ a.doc = b.doc /\ a.item < b.item
    \/ a.doc = b.doc /\ a.item = b.item /\ a.piece < b.piece

PositiveBatchSize == batch_size # None /\ batch_size[1] > 0

\* C1: the sequence numbers of the chunks placed so far, and of the chunks
\* returned, are 0, 1, 2, ... in placement order with no gap and no repeat,
\* and placement order is document order, then element order within the
\* document, then piece order within the element; the count goes on across
\* documents.
C1_SequenceNumbers ==
    LET placed == PackedChunks
    IN  /\ \A i \in 1..Len(placed) :
              placed[i].metadata.sequence_number = i - 1
        /\ \A i, j \in 1..Len(placed) :
              i < j => OriginBefore(placed[i].origin, placed[j].origin)
        /\ result # None =>
              /\ ChunksOf(result[1].batches) = placed
              /\ result[1].total_chunks = Len(placed)

\* a call returned chunks of two documents, one element giving two pieces
C1_Witness ==
    LET placed == PackedChunks
    IN  /\ pc = "done"
        /\ Len(placed) = 3
        /\ \E i, j \in 1..Len(placed) :
              /\ placed[i].origin.doc = 1
              /\ placed[j].origin.doc = 2
              /\ placed[j].origin.piece = 2

\* the groups hold n chunks in ceil(n / b) groups, each of b chunks but the
\* last, which holds 1 to b
GroupsExact(groups, b) ==
    LET n == Len(Flatten(groups))
    IN  /\ Len(groups) = (n + b - 1) \div b
        /\ \A g \in 1..Len(groups) :
              /\ Len(groups[g]) >= 1
              /\ Len(groups[g]) <= b
              /\ g < Len(groups) => Len(groups[g]) = b

\* C3: with a positive batch_size b, after every chunk and at return the t
\* chunks placed so far lie in ceil(t / b) groups, each of exactly b chunks
\* except possibly the last, which has 1 to b; no group is empty or larger
\* than b, and a document boundary closes no group.
C3_BatchingExact ==
    PositiveBatchSize =>
        /\ GroupsExact(batches, batch_size[1])
        /\ result # None =>
              /\ GroupsExact(result[1].batches, batch_size[1])
              /\ Len(Flatten(result[1].batches)) = result[1].total_chunks

\* b = 2 and three chunks returned as groups of 2 and 1, the full group
\* holding chunks of two documents
C3_Witness ==
    /\ pc = "done"
    /\ batch_size = Some(2)
    /\ Len(batches) = 2
    /\ Len(batches[1]) = 2
    /\ Len(batches[2]) = 1
    /\ batches[1][1].origin.doc # batches[1][2].origin.doc

\* C4: with a positive batch_size, total_batches equals the number of groups
\* in batches after every chunk, and the total returned equals the number of
\* groups returned.
C4_TotalBatches ==
    PositiveBatchSize =>
        /\ total_batches = Len(batches)
        /\ result # None => result[1].total_batches = Len(result[1].batches)

\* three chunks were returned with b = 2: two groups opened, one chunk
\* joined an open group
C4_Witness ==
    /\ pc = "done"
    /\ batch_size = Some(2)
    /\ result[1].total_chunks = 3
    /\ result[1].total_batches = 2

\* C5: unless the modulo has just raised ZeroDivisionError (the chunk at hand
\* is then counted and not placed), total_chunks is the number of chunks
\* placed into batches and total_characters is the sum of the lengths of
\* their texts, each text being its piece trimmed; the totals returned are
\* these, summed over all the documents of the call.
C5_Totals ==
    LET placed == PackedChunks
    IN  exception # Some("ZeroDivisionError") =>
            /\ total_chunks = Len(placed)
            /\ total_characters =
                  SumLen([i \in 1..Len(placed) |-> placed[i].text])
            /\ total_characters =
                  SumLen([i \in 1..Len(placed) |-> strip(placed[i].origin.raw)])
            /\ result # None =>
                  /\ result[1].total_chunks = total_chunks
                  /\ result[1].total_characters = total_characters

\* a call returned totals over two documents, one chunk trimmed to nothing
C5_Witness ==
    LET placed == PackedChunks
    IN  /\ pc = "done"
        /\ result[1].total_chunks = 3
        /\ result[1].total_characters = 2
        /\ \E i, j \in 1..Len(placed) :
              placed[i].origin.doc # placed[j].origin.doc

\* the page of the document a chunk comes from, None if it has none
DocumentPage(chunk) ==
    LET doc == documents[chunk.origin.doc]
    IN  IF "page" \in DOMAIN doc THEN doc.page ELSE None

\* C6: a chunk of a document whose page is not None (0 included) carries
\* that page as page_number; a chunk of a document without a page key or
\* with page None carries no page_number; so no chunk carries the page of
\* another document.
C6_PageNumber ==
    LET placed == PackedChunks
    IN  \A i \in 1..Len(placed) :
            IF DocumentPage(placed[i]) # None
            THEN /\ "page_number" \in DOMAIN placed[i].metadata
                 /\ placed[i].metadata.page_number = DocumentPage(placed[i])[1]
            ELSE "page_number" \notin DOMAIN placed[i].metadata

\* a call returned a chunk of a page-0 document after a chunk of a document
\* with no page
C6_Witness ==
    LET placed == PackedChunks
    IN  /\ pc = "done"
        /\ \E i, j \in 1..Len(placed) :
              /\ i < j
              /\ "page_number" \notin DOMAIN placed[i].metadata
              /\ placed[j].origin.doc # placed[i].origin.doc
              /\ "page_number" \in DOMAIN placed[j].metadata
              /\ placed[j].metadata.page_number = 0


\* the concatenation order of the element families
FamilyRank(kind) ==
    CASE kind = "MarkdownTable" -> 1
      [] kind = "MarkdownCode" -> 2
      [] kind = "MarkdownImage" -> 3
      [] OTHER -> 4

\* chunk a may precede chunk b of the same document: a's element starts no
\* later, and on equal starts a's family is no later in the concatenation
InElementOrder(a, b) ==
    \/ a.start_index < b.start_index
    \/ /\ a.start_index = b.start_index
       /\ FamilyRank(a.kind) <= FamilyRank(b.kind)

\* C2: within one document the chunks are emitted (by parse_markdown) and
\* placed (by chunk_documents) in non-decreasing start_index of their source
\* elements, and for elements of equal start_index a table's chunks precede
\* a code block's chunks, which precede a prose segment's chunks.
C2_ElementOrder ==
    LET placed == PackedChunks
    IN  /\ \A i, j \in 1..Len(final_chunks) :
              i < j =>
                  InElementOrder(final_chunks[i].origin, final_chunks[j].origin)
        /\ \A i, j \in 1..Len(placed) :
              (i < j /\ placed[i].origin.doc = placed[j].origin.doc) =>
                  InElementOrder(placed[i].origin, placed[j].origin)

\* a document's chunks were returned, a code block's chunk ahead of the
\* chunk of a prose segment with the same start_index
C2_Witness ==
    LET placed == PackedChunks
    IN  /\ pc = "done"
        /\ \E i, j \in 1..Len(placed) :
              /\ i < j
              /\ placed[i].origin.doc = placed[j].origin.doc
              /\ placed[i].origin.start_index = placed[j].origin.start_index
              /\ placed[i].origin.kind = "MarkdownCode"
              /\ placed[j].origin.kind = "Chunk"

\* the chunks parse_markdown has emitted for the element of a call
ChunksOfCall(c) ==
    SelectSeq(final_chunks, LAMBDA ch : ch.origin.doc = c.doc /\ ch.origin.item = c.item)

\* the element of the current document a call was made for declares a
\* language the code splitter has no grammar for
UnrecognizedLanguage(c) ==
    /\ c.doc = docIdx
    /\ c.item <= Len(items)
    /\ items[c.item].language # None
    /\ items[c.item].language[1] \notin RecognizedGrammars

\* C7: a code block whose declared language is no recognized grammar, so
\* that code splitting raised, yields at least one chunk through the prose
\* fallback, and no exception leaves parse_markdown at that block.
C7_CodeFallbackNeverRaises ==
    \A k \in 1..Len(calls) :
        (calls[k].via = "code" /\ calls[k].raised /\ UnrecognizedLanguage(calls[k])) =>
            /\ ~(pc = "raised" /\ itemIdx = calls[k].item)
            /\ pc = "items" => ChunksOfCall(calls[k]) # <<>>

\* C8: every prose segment is split by a prose splitter built with the
\* language-aware rules of the call, whatever was processed before it.
C8_ProseRulesLanguageAware ==
    \A k \in 1..Len(calls) :
        calls[k].via = "prose" =>
            calls[k].splitter[1].rules = Some(Rules(language_code))

\* C9: whenever code splitting fails, the block's content is split by a
\* prose splitter built with the explicit "no special rules" rule set,
\* whether or not a prose segment was processed before it.
C9_FallbackRulesExplicit ==
    \A k \in 1..Len(calls) :
        (calls[k].via = "fallback" /\ calls[k].splitter # None) =>
            calls[k].splitter[1].rules = Some(FallbackRules)

\* C10: a failure of the structural parse, of the table splitter or of the
\* prose splitter is not caught and not retried: the splitter call that
\* raised is the only call of its kind on its element and the last call of
\* all, the loops stand where it raised, chunk_documents is left by that
\* exception and has returned nothing.
C10_FailuresPropagate ==
    /\ \A k \in 1..Len(calls) :
          (calls[k].raised /\ calls[k].via # "code") =>
              /\ k = Len(calls)
              /\ pc = "raised"
              /\ docIdx = calls[k].doc
              /\ itemIdx = calls[k].item
              /\ exception \in {Some("TableChunker.chunk"),
                                Some("RecursiveChunker.chunk"),
                                Some("RecursiveChunker.__init__")}
    /\ \A k, m \in 1..Len(calls) :
          (calls[k].doc = calls[m].doc /\ calls[k].item = calls[m].item
              /\ calls[k].via = calls[m].via) => k = m
    /\ exception # None =>
          /\ pc = "raised"
          /\ result = None
          /\ \A k \in 1..Len(calls) : calls[k].doc <= docIdx
    /\ exception = Some("MarkdownChef.parse") =>
          \A k \in 1..Len(calls) : calls[k].doc < docIdx
    /\ pc = "raised" => exception # None /\ result = None

\* the table splitter raised on the first of two elements of the first of
\* two documents: nothing more was processed and nothing returned
C10_Witness ==
    /\ pc = "raised"
    /\ exception = Some("TableChunker.chunk")
    /\ docIdx = 1
    /\ Len(documents) = 2
    /\ itemIdx = 1
    /\ Len(items) = 2
    /\ Len(calls) = 1
    /\ result = None


\* the splitter call that returned the piece a chunk comes from
CallOf(origin) ==
    calls[CHOOSE k \in 1..Len(calls) :
              /\ calls[k].doc = origin.doc
              /\ calls[k].item = origin.item
              /\ ~calls[k].raised]

\* C11: every chunk of a table or of a prose segment comes from a splitter
\* that was constructed with the configured chunk_size, and its text is the
\* piece with characters removed only, so a piece within chunk_size gives a
\* text within chunk_size.
C11_ChunkSizeBound ==
    \A i \in 1..Len(final_chunks) :
        LET o == final_chunks[i].origin
        IN  o.kind \in {"MarkdownTable", "Chunk"} =>
                /\ CallOf(o).splitter[1].chunk_size = chunk_size
                /\ Len(final_chunks[i].text) <= Len(o.raw)
                /\ Len(o.raw) <= CallOf(o).splitter[1].chunk_size =>
                      Len(final_chunks[i].text) <= chunk_size

\* a document gave a table chunk and a prose chunk, and the prose piece had
\* whitespace that was trimmed
C11_Witness ==
    /\ pc = "pack"
    /\ \E i, j \in 1..Len(final_chunks) :
          /\ final_chunks[i].origin.kind = "MarkdownTable"
          /\ final_chunks[j].origin.kind = "Chunk"
          /\ Len(final_chunks[j].text) < Len(final_chunks[j].origin.raw)

\* the number of pieces the first k splitter calls returned
RECURSIVE PiecesUpTo(_)
PiecesUpTo(k) ==
    IF k = 0 THEN 0 ELSE Len(calls[k].returned) + PiecesUpTo(k - 1)

\* C12: with batch_size None, batches is a flat list: one chunk dictionary
\* per chunk placed, in sequence_number order, as many as were counted;
\* total_batches stays 0; and what is returned is that list, holding one
\* entry for every piece the splitters returned.
C12_NullBatchSizePassThrough ==
    batch_size = None =>
        /\ total_batches = 0
        /\ Len(batches) = total_chunks
        /\ \A i \in 1..Len(batches) :
              /\ batches[i].metadata.sequence_number = i - 1
              /\ batches[i].text = strip(batches[i].origin.raw)
        /\ \A i, j \in 1..Len(batches) :
              i < j => OriginBefore(batches[i].origin, batches[j].origin)
        /\ result # None =>
              /\ result[1].batches = batches
              /\ result[1].total_batches = 0
              /\ Len(result[1].batches) = PiecesUpTo(Len(calls))

\* a call with batch_size None returned three chunks of two documents
C12_Witness ==
    /\ pc = "done"
    /\ batch_size = None
    /\ Len(result[1].batches) = 3
    /\ result[1].batches[1].origin.doc # result[1].batches[3].origin.doc
    /\ result[1].total_batches = 0

\* C13: the element list holds no image, no splitter is called for an image
\* and no chunk emitted or placed comes from an image.
C13_NoImages ==
    LET placed == PackedChunks
    IN  /\ \A i \in 1..Len(items) : items[i].kind # "MarkdownImage"
        /\ \A i \in 1..Len(final_chunks) :
              final_chunks[i].origin.kind # "MarkdownImage"
        /\ \A i \in 1..Len(placed) : placed[i].origin.kind # "MarkdownImage"

\* a document with two elements was parsed and chunked, and its chunks placed
C13_Witness ==
    /\ pc = "done"
    /\ Len(items) = 2
    /\ Len(PackedChunks) >= 2

\* s has no whitespace at either end
Trimmed(s) == s = <<>> \/ (s[1] \notin Whitespace /\ s[Len(s)] \notin Whitespace)

\* text is raw without a prefix and a suffix of whitespace
TrimOf(text, raw) ==
    \E i \in 0..Len(raw) :
        /\ i + Len(text) <= Len(raw)
        /\ text = SubSeq(raw, i + 1, i + Len(text))
        /\ \A k \in 1..Len(raw) :
              (k <= i \/ k > i + Len(text)) => raw[k] \in Whitespace

\* C14: the text of every chunk emitted and of every chunk placed is its
\* piece without the whitespace around it: it has no whitespace at either
\* end, what was removed is whitespace only, and trimming it again gives the
\* same text.
C14_TrimIdempotent ==
    LET placed == PackedChunks
    IN  /\ \A i \in 1..Len(final_chunks) :
              /\ Trimmed(final_chunks[i].text)
              /\ TrimOf(final_chunks[i].text, final_chunks[i].origin.raw)
              /\ strip(final_chunks[i].text) = final_chunks[i].text
        /\ \A i \in 1..Len(placed) :
              /\ Trimmed(placed[i].text)
              /\ TrimOf(placed[i].text, placed[i].origin.raw)
              /\ strip(placed[i].text) = placed[i].text

\* a call returned a chunk whose piece had whitespace on both sides and a
\* chunk whose piece was whitespace only
C14_Witness ==
    LET placed == PackedChunks
    IN  /\ pc = "done"
        /\ \E i, j \in 1..Len(placed) :
              /\ placed[i].text = <<>>
              /\ placed[i].origin.raw # <<>>
              /\ placed[j].text # <<>>
              /\ Len(placed[j].origin.raw) = Len(placed[j].text) + 2


\* this step ran the try block of a code element
CodeStep == AtItem({"MarkdownCode"}) /\ Len(calls') > Len(calls)

\* the call the try block of this step made
CodeCall == calls'[Len(calls) + 1]

\* this step constructed a code splitter, or raised constructing it
ConstructsCodeChunker ==
    \/ CodeCall.splitter = None
    \/ CodeCall.splitter[1].at = <<docIdx, itemIdx>>

\* this step chunked with the code splitter it found and left it in place
ReusesCodeChunker ==
    /\ code_chunker # None
    /\ CodeCall.splitter = code_chunker
    /\ code_chunker' = code_chunker

\* no code block precedes the element at hand in its document
FirstCodeBlock == \A i \in 1..(itemIdx - 1) : items[i].kind # "MarkdownCode"

\* the element at hand declares a language other than the code splitter's
DeclaresOtherLanguage ==
    /\ items[itemIdx].language # None
    /\ code_chunker # None
    /\ code_chunker[1].language # items[itemIdx].language

\* C15 as stated: a code splitter is constructed for a code block exactly when
\* the block is the first code block of its document or declares a non-null
\* language other than the current code splitter's; otherwise the existing
\* code splitter is reused unchanged.
C15_ConstructedOnFirstOrOtherLanguage ==
    [][CodeStep =>
          /\ ConstructsCodeChunker <=> (FirstCodeBlock \/ DeclaresOtherLanguage)
          /\ ~ConstructsCodeChunker => ReusesCodeChunker]_vars

\* C15 amended: a code splitter is constructed for a code block exactly when
\* the document has no code splitter (no earlier code block of it got one
\* constructed) or the block declares a non-null language other than the
\* current code splitter's; it is constructed for the declared language, or
\* for "auto" when the block declares none, with the configured chunk_size;
\* otherwise the existing code splitter is reused unchanged.
C15_ConstructedWhenNoneOrOtherLanguage ==
    /\ [](pc = "items" =>
            (code_chunker = None <=>
                \A k \in 1..Len(calls) :
                    (calls[k].doc = docIdx /\ calls[k].via = "code") =>
                        calls[k].splitter = None))
    /\ [][CodeStep =>
            /\ ConstructsCodeChunker <=> (code_chunker = None \/ DeclaresOtherLanguage)
            /\ ~ConstructsCodeChunker => ReusesCodeChunker
            /\ (ConstructsCodeChunker /\ CodeCall.splitter # None) =>
                  /\ code_chunker' = CodeCall.splitter
                  /\ CodeCall.splitter[1].chunk_size = chunk_size
                  /\ CodeCall.splitter[1].language =
                        (IF items[itemIdx].language = None
                         THEN Some("auto") ELSE items[itemIdx].language)]_vars

\* the first code block of a document declared a language with no grammar
\* and got no splitter; the second, declaring none, got one constructed
C15_Witness ==
    \E k, m \in 1..Len(calls) :
        /\ k < m
        /\ calls[k].doc = calls[m].doc
        /\ calls[k].via = "code"
        /\ calls[k].splitter = None
        /\ calls[m].via = "code"
        /\ calls[m].splitter # None
        /\ calls[m].splitter[1].at = <<calls[m].doc, calls[m].item>>
        /\ calls[m].splitter[1].language = Some("auto")

\* the first table call of the document of call k
FirstTableCall(k) ==
    CHOOSE m \in 1..Len(calls) :
        /\ calls[m].via = "table"
        /\ calls[m].doc = calls[k].doc
        /\ \A n \in 1..(m - 1) :
              ~(calls[n].via = "table" /\ calls[n].doc = calls[k].doc)

\* C16: every table of a document is split by one table splitter, the one
\* constructed at the document's first table with the configured chunk_size;
\* the handle is empty until then.
C16_TableChunkerOnce ==
    /\ \A k \in 1..Len(calls) :
          calls[k].via = "table" =>
              calls[k].splitter =
                  Some(TableChunker(chunk_size,
                                    <<calls[k].doc, calls[FirstTableCall(k)].item>>))
    /\ pc = "items" =>
          (table_chunker = None <=>
              \A k \in 1..Len(calls) :
                  ~(calls[k].via = "table" /\ calls[k].doc = docIdx))

\* the two tables of a document were split by the same instance
C16_Witness ==
    \E k, m \in 1..Len(calls) :
        /\ k < m
        /\ calls[k].via = "table"
        /\ calls[m].via = "table"
        /\ calls[k].doc = calls[m].doc
        /\ calls[k].item # calls[m].item
        /\ calls[m].splitter = calls[k].splitter
        /\ ~calls[m].raised

\* the handle is empty or holds a splitter constructed in document d
OwnHandle(handle, d) == handle = None \/ handle[1].at[1] = d

\* C17: parse_markdown starts with its three splitter handles empty, while
\* it runs they hold only splitters it constructed itself, and every splitter
\* that was called was constructed in the invocation that called it.
C17_HandlesPerInvocation ==
    /\ (pc = "items" /\ itemIdx = 1) =>
          /\ recursive_chunker = None
          /\ table_chunker = None
          /\ code_chunker = None
    /\ pc = "items" =>
          /\ OwnHandle(recursive_chunker, docIdx)
          /\ OwnHandle(table_chunker, docIdx)
          /\ OwnHandle(code_chunker, docIdx)
    /\ \A k \in 1..Len(calls) : OwnHandle(calls[k].splitter, calls[k].doc)

\* two documents of one call were chunked, each by a splitter of its own
C17_Witness ==
    /\ pc = "items"
    /\ docIdx = 2
    /\ \E k, m \in 1..Len(calls) :
          /\ calls[k].doc = 1
          /\ calls[m].doc = 2
          /\ calls[k].via = calls[m].via
          /\ calls[k].splitter # None
          /\ calls[m].splitter # None
          /\ calls[k].splitter # calls[m].splitter

\* the number of pieces the first k splitter calls returned for document d
RECURSIVE PiecesOfDocument(_, _)
PiecesOfDocument(d, k) ==
    IF k = 0 THEN 0
    ELSE (IF calls[k].doc = d THEN Len(calls[k].returned) ELSE 0)
            + PiecesOfDocument(d, k - 1)

\* C18: the chunks emitted for a document are as many as the pieces its
\* splitter calls returned; every chunk is one piece of one call on one
\* element, trimmed; every piece returned has exactly one chunk, also when it
\* trims to nothing.
C18_OneChunkPerPiece ==
    pc \in {"items", "pack"} =>
        /\ Len(final_chunks) = PiecesOfDocument(docIdx, Len(calls))
        /\ \A i \in 1..Len(final_chunks) :
              LET o == final_chunks[i].origin
              IN  /\ o.doc = docIdx
                  /\ o.piece \in 1..Len(CallOf(o).returned)
                  /\ CallOf(o).returned[o.piece] = o.raw
                  /\ final_chunks[i].text = strip(o.raw)
        /\ \A k \in 1..Len(calls) :
              calls[k].doc = docIdx =>
                  \A p \in 1..Len(calls[k].returned) :
                      Cardinality({i \in 1..Len(final_chunks) :
                                      /\ final_chunks[i].origin.item = calls[k].item
                                      /\ final_chunks[i].origin.piece = p}) = 1

\* a document of two elements gave three chunks, two of one element, and one
\* chunk is empty after trimming
C18_Witness ==
    /\ pc = "pack"
    /\ Len(items) = 2
    /\ Len(final_chunks) = 3
    /\ \E i \in 1..Len(final_chunks) :
          /\ final_chunks[i].text = <<>>
          /\ final_chunks[i].origin.piece = 2


\* the notification of effect e, if it is one, has this status
NotifiesStatus(e, status) == e.op = "notify" /\ e.arg[1] = status

\* the last external call is the notification of status 500 carrying message
LastReports(message) ==
    /\ effects # <<>>
    /\ effects[Len(effects)].op = "notify"
    /\ effects[Len(effects)].arg = <<HTTP_500_INTERNAL_SERVER_ERROR, message>>
    /\ ipc \in {"returned", "raised"}

\* what str(e) is for the failure of external call e
FailureMessage(e) ==
    CASE e.op = "parse" -> e.arg
      [] e.op = "Redis" -> "Redis"
      [] e.op = "set" -> "redis_client.set"
      [] OTHER -> "upload_chunks_to_r2"

\* C19: when a parser, the Redis client, a Redis write or the upload raises,
\* the next and last external call of the invocation is notify_workflow with
\* status 500 and the exception's message, and no notification of status 200
\* is made; when chunk_documents raised, nothing is written to Redis or
\* uploaded, no notification of status 200 is made, and once the exception
\* is handled the last external call is notify_workflow with status 500 and
\* its message.
C19_FailuresReported ==
    /\ \A k \in 1..Len(effects) :
          (effects[k].raised /\ effects[k].op \in {"parse", "Redis", "set", "upload"}) =>
              /\ k + 1 = Len(effects)
              /\ LastReports(FailureMessage(effects[k]))
              /\ \A m \in 1..Len(effects) : ~NotifiesStatus(effects[m], HTTP_200_OK)
    /\ (ipc # "off" /\ exception # None) =>
          /\ \A m \in 1..Len(effects) :
                /\ ~NotifiesStatus(effects[m], HTTP_200_OK)
                /\ effects[m].op \notin {"Redis", "set", "upload"}
          /\ ipc # "chunk" => LastReports(exception[1])

\* chunk_documents raised ZeroDivisionError on the second chunk and the
\* invocation ended with the 500 notification
C19_Witness ==
    /\ ipc = "returned"
    /\ exception = Some("ZeroDivisionError")
    /\ total_chunks = 2
    /\ LastReports("ZeroDivisionError")

\* exactly one of request.url and request.text is not None
ExactlyOneProvided == (request.url = None) # (request.text = None)

\* C20: an invocation whose request gives both or neither of url and text
\* makes one external call, notify_workflow with status 400 and "Only one of
\* url or text can be provided", and then ends: it downloads, parses, chunks,
\* writes and uploads nothing; so extraction or any later stage is reached
\* only with exactly one of the two.
C20_ExactlyOneSource ==
    /\ (ipc # "off" /\ ~ExactlyOneProvided) =>
          /\ ipc \in {"validate", "returned", "raised"}
          /\ pc = "idle"
          /\ documents = <<>>
          /\ calls = <<>>
          /\ Len(effects) <= 1
          /\ ipc = "validate" <=> effects = <<>>
          /\ \A k \in 1..Len(effects) :
                /\ effects[k].op = "notify"
                /\ effects[k].arg = <<HTTP_400_BAD_REQUEST,
                                      "Only one of url or text can be provided">>
                /\ effects[k].raised <=> ipc = "raised"
    /\ ipc \in {"extract", "parse", "chunk", "redis", "batches", "notify"} =>
          ExactlyOneProvided

\* a request with an empty url and a text was answered with the 400
\* notification
C20_Witness ==
    /\ ipc = "returned"
    /\ request = [url |-> Some(""), text |-> Some("t")]
    /\ Len(effects) = 1
    /\ NotifiesStatus(effects[1], HTTP_400_BAD_REQUEST)


\* the notify_workflow calls among the external calls made so far
Notifications == {k \in 1..Len(effects) : effects[k].op = "notify"}

\* C23: an invocation of ingest_operation that has ended, by returning or by
\* an exception, has made exactly one notify_workflow call, also when the
\* success notification failed.
C23_NotifiedExactlyOnce ==
    (ipc \in {"returned", "raised"} /\ request # None /\ "url" \in DOMAIN request) =>
        Cardinality(Notifications) = 1

\* the Redis writes that succeeded before external call k
KeysWrittenBefore(k) ==
    {m \in 1..(k - 1) : effects[m].op = "set" /\ ~effects[m].raised}

\* C24: before a notification of status 200, every batch index 0 to
\* total_batches - 1 of the chunk_documents result was written to Redis once,
\* under a key of its own, the upload was made after the last write, and the
\* total_batches the notification carries is the number of keys written.
C24_SuccessAfterStoreAndUpload ==
    \A k \in 1..Len(effects) :
        NotifiesStatus(effects[k], HTTP_200_OK) =>
            LET written == KeysWrittenBefore(k)
            IN  /\ result # None
                /\ Cardinality(written) = result[1].total_batches
                /\ effects[k].arg[2] = ToString(Cardinality(written))
                /\ \A idx \in 0..(result[1].total_batches - 1) :
                      \E m \in written : effects[m].arg = idx
                /\ \A m, n \in written : effects[m].arg = effects[n].arg => m = n
                /\ \E u \in 1..(k - 1) :
                      /\ effects[u].op = "upload"
                      /\ ~effects[u].raised
                      /\ \A m \in written : m < u

\* with batch_size -2, three chunks in two batches were written under keys 0
\* and 1 and uploaded, and the success notification was delivered
C24_Witness ==
    /\ ipc = "returned"
    /\ batch_size = Some(-2)
    /\ result # None
    /\ result[1].total_chunks = 3
    /\ result[1].total_batches = 2
    /\ effects # <<>>
    /\ NotifiesStatus(effects[Len(effects)], HTTP_200_OK)
    /\ Cardinality(KeysWrittenBefore(Len(effects))) = 2

\* C26: with any integer batch_size, zero and negative included,
\* chunk_documents raises no error of its own (an exception that leaves it
\* comes from the parser or a splitter), and what it returns holds every
\* chunk in a group.
C26_EveryBatchSizeReturns ==
    batch_size # None =>
        /\ exception # Some("ZeroDivisionError")
        /\ result # None =>
              Len(Flatten(result[1].batches)) = result[1].total_chunks


\* the calls of the operation among the external calls made so far
Attempts == {k \in 1..Len(effects) : effects[k].op = "operation"}

\* the waits among the external calls made so far
Sleeps == {k \in 1..Len(effects) : effects[k].op = "sleep"}

\* _retry_operation has ended, by returning or by raising
RetryEnded == ipc \in {"returned", "raised"}

\* C21: _retry_operation calls the operation at most retries times and not
\* again after a call that returned, whose value it returns at once; it gives
\* up only after retries failed calls; each wait of delay comes directly
\* after a failed call and directly before another call, so none follows the
\* last attempt.
C21_RetriesUntilFirstSuccess ==
    /\ "retries" \in DOMAIN request
    /\ Cardinality(Attempts) <= (IF request.retries > 0 THEN request.retries ELSE 0)
    /\ \A k \in Attempts :
          ~effects[k].raised =>
              /\ k = Len(effects)
              /\ ipc = "returned"
              /\ locals.returned = Some(effects[k].arg)
    /\ ipc = "returned" =>
          /\ effects # <<>>
          /\ effects[Len(effects)].op = "operation"
          /\ ~effects[Len(effects)].raised
    /\ ipc = "raised" =>
          Cardinality(Attempts) = (IF request.retries > 0 THEN request.retries ELSE 0)
    /\ \A k \in Sleeps :
          /\ k > 1
          /\ effects[k - 1].op = "operation"
          /\ effects[k - 1].raised
          /\ effects[k].arg = request.delay
          /\ k < Len(effects) => effects[k + 1].op = "operation"
          /\ k = Len(effects) => ~RetryEnded
    /\ RetryEnded =>
          \A k \in Attempts : k < Len(effects) => effects[k + 1].op = "sleep"

\* with retries = 3, two calls failed, each followed by a wait, and the
\* third returned
C21_Witness ==
    /\ "retries" \in DOMAIN request
    /\ request.retries = 3
    /\ ipc = "returned"
    /\ Cardinality(Attempts) = 3
    /\ Cardinality(Sleeps) = 2

\* C22: when every attempt failed, the exception _retry_operation raises is
\* the one the last attempt raised.
C22_RaisesLastException ==
    ("retries" \in DOMAIN request /\ ipc = "raised" /\ Attempts # {}) =>
        /\ effects[Len(effects)].op = "operation"
        /\ locals.raised = Some(effects[Len(effects)].arg)


\* the status requests among the external calls made so far
StatusRequests == {k \in 1..Len(effects) : effects[k].op = "get"}

\* external call k is a status request answered "processing"
StillProcessing(k) ==
    /\ effects[k].op = "get"
    /\ ~effects[k].raised
    /\ effects[k].arg = "processing"

\* at most _max_polls status requests are made, none and no sleep after a
\* request that raised or was answered with another status than
\* "processing", and each sleep directly follows an answer "processing"
PollingBounded ==
    "job_id" \in DOMAIN request =>
        /\ Cardinality(StatusRequests) <= _max_polls
        /\ \A k \in StatusRequests : ~StillProcessing(k) => k = Len(effects)
        /\ \A k \in Sleeps : k > 1 /\ StillProcessing(k - 1)

\* _get_and_wait_for_job has returned or raised
PollEnded == ipc \in {"returned", "raised"}

\* C28: _get_and_wait_for_job always ends, after at most _max_polls status
\* requests; it makes no request after the first answer whose status is not
\* "processing" and sleeps only after an answer "processing".
C28_PollingTerminates == []PollingBounded /\ <>PollEnded

\* every one of the _max_polls requests was answered "processing" and the
\* function has ended
C28_Witness ==
    /\ "job_id" \in DOMAIN request
    /\ PollEnded
    /\ Cardinality(StatusRequests) = _max_polls
    /\ \A k \in StatusRequests : StillProcessing(k)


\* the language the claim gives page k: its own when supported, otherwise
\* the one of the request as received
OwnOrRequested(k) ==
    IF locals.data[k].language # None /\ locals.data[k].language[1] \in langs
    THEN locals.data[k].language
    ELSE request.language_code

\* C25: every crawled page is chunked with its own detected language when
\* that language is supported and with the language_code of the request as
\* received otherwise, whatever the pages before it were.
C25_PageLanguageIndependent ==
    ("language_code" \in DOMAIN request /\ "documents" \in DOMAIN locals) =>
        \A k \in 1..Len(locals.documents) :
            locals.documents[k].chunked_with = OwnOrRequested(k)


\* the videos whose conversion found no transcript: convert returned
\* markdown without a transcript section for them
WithoutTranscript ==
    {locals.videos_data[k].video :
        k \in {m \in 1..Len(locals.videos_data) :
                  ~locals.videos_data[m].markdown[1].transcript}}

\* the elements of a sequence
Range(seq) == {seq[k] : k \in 1..Len(seq)}

\* youtube_operation has ended
YoutubeEnded == ipc \in {"returned", "raised"}

\* C27: a video for which no transcript is found is never chunked nor
\* uploaded and, once the operation has gone past it, is in failed_videos;
\* the operation still handles every other video; and when no video had a
\* transcript, it reports "No transcripts found for any video".
C27_NoTranscriptVideosFail ==
    "urls" \in DOMAIN request =>
        /\ \A d \in Range(locals.documents) : d.video_id \notin WithoutTranscript
        /\ \A k \in 1..Len(effects) :
              effects[k].op = "upload" => effects[k].arg \notin WithoutTranscript
        /\ YoutubeEnded =>
              \A v \in WithoutTranscript : v \in Range(locals.failed_videos)
        /\ (YoutubeEnded /\ WithoutTranscript # {}
               /\ \A k \in 1..Len(effects) :
                     ~effects[k].raised
               /\ exception = None) =>
              Len(locals.videos_data) = locals.videos_to_process
        /\ (YoutubeEnded /\ locals.videos_to_process > 0
               /\ Cardinality(WithoutTranscript) = locals.videos_to_process) =>
              \E k \in 1..Len(effects) :
                  /\ effects[k].op = "notify"
                  /\ effects[k].arg = <<HTTP_500_INTERNAL_SERVER_ERROR,
                                        "No transcripts found for any video">>


====
